---- MODULE Spec2Model ----
(***************************************************************************)
(* papersketch: the summarize_paper tool handler (tools.py), the in-memory *)
(* file cache it publishes rendered PNGs into (tools.py), the summarizer   *)
(* client (client.py) and the download route (server.py).                  *)
(*                                                                         *)
(* Scheduling.  _handle_call_tool is a coroutine on the single asyncio     *)
(* event loop: between two awaits it runs without any other coroutine      *)
(* interleaving (its only await is markdown_to_png_bytes; the call to      *)
(* _client.summarize is a blocking synchronous call).  download_file is a  *)
(* plain function, which Starlette runs in a worker thread: its steps      *)
(* interleave with everything, one dict operation at a time.               *)
(*                                                                         *)
(* Time is a discrete monotone clock `now`; time.time() reads it.          *)
(* uuid.uuid4() is modelled as returning a token never returned before     *)
(* (its collisions have probability about 2^-122 and are left out).        *)
(***************************************************************************)
EXTENDS Integers, Sequences, FiniteSets, TLC

\* ------------------------------------------------------------- bounds
MaxTime == 2          \* the clock runs 0..MaxTime
TtlTicks == 1         \* _FILE_TTL_SECONDS (900 s) in clock ticks
MaxTokens == 2        \* tokens uuid4 can hand out: 1..MaxTokens
NumInv == 2           \* tool invocations in flight at once
NumReq == 1           \* download requests in flight at once
MaxBrowsers == 3      \* Chromium launches in one run

Invs == 1..NumInv
Reqs == 1..NumReq
Tokens == 1..MaxTokens       \* what uuid4 returns
PathTokens == 0..MaxTokens   \* what a download path can hold: 0 is never a uuid4 token

\* ---------------------------------------------------------- constants
TOOL_NAME == "summarize_paper"
image_filename == "paper_sketch.png"
image_mime == "image/png"
FILE_ROUTE == "/papersketch/file/"
PDF_ROUTE == "/papersketch/pdf/"

\* Python's None, as returned by dict.get and by a JSON object without the key
Null == "<None>"

VARIABLES
    api_key,    \* config.PAPERSKETCH_API_KEY: os.getenv("PAPERSKETCH_API_KEY")
    client,     \* tools._client: "unset" until tools.py is imported, then "ready",
                \* or "failed" when PaperSketchClient() raised and the import with it
    now,        \* the wall clock read by time.time()
    FILE_CACHE, \* _FILE_CACHE: token -> entry, NoEntry where the key is absent
    stored,     \* history: what each put stored and when (never erased)
    inv,        \* per invocation in flight: position and locals of _handle_call_tool
    req,        \* per request in flight: position and locals of download_file
    sent,       \* what the step just taken sent back: a tool call's outcome, a
                \* download's response, or nothing
    render_calls, \* per call of markdown_to_png_bytes in flight: position and locals
    browsers    \* every Chromium the process has launched: "none" before its
                \* launch, "open", then "closed"

vars == <<api_key, client, now, FILE_CACHE, stored, inv, req, sent, render_calls, browsers>>

\* ------------------------------------------------------------ values
NoEntry == [present |-> FALSE, file_bytes |-> <<>>, filename |-> "", mime_type |-> "",
            expires_at |-> 0]

Entry(file_bytes, filename, mime_type, expires_at) ==
    [present |-> TRUE, file_bytes |-> file_bytes, filename |-> filename,
     mime_type |-> mime_type, expires_at |-> expires_at]

\* the (file_bytes, filename, mime_type) triple cache_get_file returns
Triple(e) == <<e.file_bytes, e.filename, e.mime_type>>

CacheKeys(c) == {t \in PathTokens : c[t].present}

\* the url argument of a call: absent, or a JSON value of some type
UrlArgs == { [type |-> "missing", val |-> ""],
             [type |-> "int", val |-> "42"],
             [type |-> "str", val |-> ""],
             [type |-> "str", val |-> "http://p"] }

ToolNames == {TOOL_NAME, "other_tool"}

\* Python truthiness of an argument value
Truthy(v) == /\ v.type # "missing"
             /\ ~(v.type = "int" /\ v.val = "0")
             /\ ~(v.type = "str" /\ v.val = "")

IsStr(v) == v.type = "str"

\* Python truthiness of a JSON string-or-None
TruthyStr(s) == s # Null /\ s # ""

PyOr(a, b) == IF TruthyStr(a) THEN a ELSE b

\* ------------------------------------------------ summarizer responses
\* resp.json(): the value under each candidate key, Null where the key is absent
Response(ps, su, p_s) == [paperSketch |-> ps, summary |-> su, paper_sketch |-> p_s]

Responses == { Response(Null, Null, Null),
               Response("A", Null, Null),
               Response("", "A", Null),
               Response(Null, Null, "A") }

\* what the outbound httpx.get can do
Transports == {"ok", "read_timeout", "connect_timeout", "status_error"}

\* PaperSketchClient.summarize: the exception it raises ("" when it returns)
summarize_raises(transport) ==
    CASE transport = "ok" -> ""
      [] transport = "read_timeout" -> "RuntimeError"
      [] transport = "connect_timeout" -> "ConnectTimeout"
      [] transport = "status_error" -> "HTTPStatusError"

\* the keys tried in another order: summary first
raw_summary_of_summary_first(data) ==
    PyOr(data.summary, PyOr(data.paperSketch, PyOr(data.paper_sketch, "")))

\* raw_summary = data.get("paperSketch") or data.get("summary")
\*               or data.get("paper_sketch") or ""
raw_summary_of(data) ==
    PyOr(data.paperSketch, PyOr(data.summary, PyOr(data.paper_sketch, "")))

\* markdown_to_png_bytes, when it returns: the PNG of this Markdown
png_of(markdown_text) == <<"PNG", markdown_text>>

\* ------------------------------------------------------ the file cache
\* uuid.uuid4().hex: a token not handed out before (the lowest, so that the
\* dict's insertion order is the order of the tokens)
uuid4(used) == CHOOSE t \in Tokens \ used : \A u \in Tokens \ used : t <= u

\* history of one token: whether _cache_put_file returned it, when, and the
\* arguments of that call
NoPut == [put |-> FALSE, at |-> 0, file_bytes |-> <<>>, filename |-> "", mime_type |-> ""]

\* the triple that was put under a token
PutTriple(h) == <<h.file_bytes, h.filename, h.mime_type>>

UsedTokens == {t \in Tokens : stored[t].put}

\* a put that forgets the TTL: the entry expires at once
cache_put_file_no_ttl(c, token, file_bytes, filename, mime_type, t) ==
    [c EXCEPT ![token] = Entry(file_bytes, filename, mime_type, t)]

\* _FILE_CACHE[token] = (file_bytes, filename, mime_type, time.time() + _FILE_TTL_SECONDS)
cache_put_file(c, token, file_bytes, filename, mime_type, t) ==
    [c EXCEPT ![token] = Entry(file_bytes, filename, mime_type, t + TtlTicks)]

\* a lookup that consumes the entry, as _FILE_CACHE.pop(token, None) would
cache_after_get_pop(c, token) == [c EXCEPT ![token] = NoEntry]

\* a lookup that leaves a placeholder under the key, as setdefault would
cache_after_get_setdefault(c, token) ==
    IF c[token].present THEN c ELSE [c EXCEPT ![token] = Entry(<<>>, "", "", 0)]

\* a lookup that renews the entry it finds, pushing its expiry to the far end
cache_after_get_touch(c, token) ==
    IF c[token].present THEN [c EXCEPT ![token].expires_at = MaxTime + TtlTicks + 1]
    ELSE c

\* _FILE_CACHE.get(token) leaves the dict as it is
cache_after_get(c, token) == c

\* a removal that empties the dict, as _FILE_CACHE.clear() would
cache_pop_all(c, token) == [t \in DOMAIN c |-> NoEntry]

\* _FILE_CACHE.pop(token, None)
cache_pop(c, token) == [c EXCEPT ![token] = NoEntry]

\* the comparison off by one: an entry is dead at its expires_at already
get_expired_ge(t, expires_at) == t >= expires_at

\* `if time.time() > expires_at` in cache_get_file
get_expired(t, expires_at) == t > expires_at

\* the comparison off by one: the sweep takes the entries expiring now as well
sweep_expired_le(expires_at, t) == expires_at <= t

\* `if exp < now` in _cache_cleanup_expired
sweep_expired(expires_at, t) == expires_at < t

\* ------------------------------------------------------- tool results
NoResult == [isError |-> FALSE, text |-> "", summary |-> "", imageUrl |-> <<>>,
             pdfUrl |-> <<>>]

ErrorResult(text) == [isError |-> TRUE, text |-> text, summary |-> "",
                      imageUrl |-> <<>>, pdfUrl |-> <<>>]

\* structured_content of the normal result; pdfUrl points at the image too
ToolResult(summary, image_url) ==
    [isError |-> FALSE, text |-> "PaperSketch generated.", summary |-> summary,
     imageUrl |-> image_url, pdfUrl |-> image_url]

\* str.rstrip("/")
RECURSIVE rstrip_slash(_)
rstrip_slash(s) ==
    IF s # <<>> /\ s[Len(s)] = "/" THEN rstrip_slash(SubSeq(s, 1, Len(s) - 1)) ELSE s

\* the URL composed from the environment value as it is, slashes and all
image_url_of_no_strip(base_env, token) == base_env \o <<FILE_ROUTE, ToString(token)>>

\* image_url: f"{base}/papersketch/file/{token}", or the relative path when
\* the stripped base is empty.  A URL is the sequence of its parts.
image_url_of(base_env, token) ==
    LET base == rstrip_slash(base_env)
    IN  IF base # <<>> THEN base \o <<FILE_ROUTE, ToString(token)>>
                        ELSE <<FILE_ROUTE, ToString(token)>>

\* values of PAPERSKETCH_PUBLIC_BASE_URL: unset, a host, a host with a trailing
\* slash, and a lone slash
Bases == { <<>>, <<"h">>, <<"h", "/">>, <<"/">> }

\* the check without its isinstance half
invalid_args_falsy_only(url) == ~Truthy(url)

\* `if not url or not isinstance(url, str)`
invalid_args(url) == ~Truthy(url) \/ ~IsStr(url)

MissingUrl == [type |-> "missing", val |-> ""]

\* an invocation in flight: where it is, its url argument, the locals of
\* _cache_cleanup_expired (now, the dict iterator's remembered size and its
\* position, the expired list), raw_summary, and how often it has called
\* _client.summarize
InvIdle == [pc |-> "idle", url |-> MissingUrl, sweep_now |-> 0, it_used |-> 0,
            it_pos |-> 0, expired |-> <<>>, raw_summary |-> "", calls |-> 0]

\* the outcome of a tool call.  name, url: its arguments; outcome: "result" (a
\* CallToolResult was returned) or "raised" (exception exc left
\* _handle_call_tool).  History: transport (what the outbound request did),
\* render ("ok" or "failed"), base (the base URL read from the environment),
\* calls (calls of _client.summarize), puts and token (calls of
\* _cache_put_file and the token returned)
NoCall == [name |-> "", url |-> MissingUrl, transport |-> "", raw_summary |-> "",
           render |-> "", base |-> <<>>, outcome |-> "", exc |-> "",
           result |-> NoResult, calls |-> 0, puts |-> 0, token |-> 0]

\* ---------------------------------------------------- download results
NoRet == <<>>

NoResponse == [status |-> 0, body |-> <<>>, media_type |-> "", disposition |-> <<>>,
               cache_control |-> ""]

NotFound == [status |-> 404, body |-> <<"File not found or expired">>,
             media_type |-> "text/plain", disposition |-> <<>>, cache_control |-> ""]

\* a handler that sends the file without the Cache-Control header
download_response_cacheable(ret) ==
    IF ret = NoRet THEN NotFound
    ELSE [status |-> 200, body |-> ret[1], media_type |-> ret[3],
          disposition |-> <<"attachment; filename=", ret[2]>>,
          cache_control |-> ""]

\* download_file, given what cache_get_file returned
download_response(ret) ==
    IF ret = NoRet THEN NotFound
    ELSE [status |-> 200, body |-> ret[1], media_type |-> ret[3],
          disposition |-> <<"attachment; filename=", ret[2]>>,
          cache_control |-> "no-store"]

\* what the router answers itself when no route matches the path
RouterNotFound == [status |-> 404, body |-> <<"Not Found">>, media_type |-> "text/plain",
                   disposition |-> <<>>, cache_control |-> ""]

\* a route table without the backward compatibility route
route_handler_file_only(route) ==
    IF route = FILE_ROUTE THEN "download_file" ELSE "none"

\* app.router.routes: the endpoint the two appended routes hand a path to
route_handler(route) ==
    IF route \in {FILE_ROUTE, PDF_ROUTE} THEN "download_file" ELSE "none"

\* a request in flight: the path token (both routes hand it to the same
\* download_file) and cache_get_file's local `item`
ReqIdle == [pc |-> "idle", token |-> 0, item |-> NoEntry]

\* the outcome of a download.  token: the path token; found: the lookup found
\* an item; ret: what cache_get_file returned; resp: the response.  History:
\* after_put (the lookup came after the put of this token), in_time (the clock
\* was not past the put time plus the TTL when cache_get_file last looked at it)
NoGet == [token |-> 0, found |-> FALSE, after_put |-> FALSE, in_time |-> FALSE,
          ret |-> NoRet, resp |-> NoResponse]

NoSent == [kind |-> "none", call |-> NoCall, get |-> NoGet]

SentCall(c) == [kind |-> "call", call |-> c, get |-> NoGet]

SentGet(g) == [kind |-> "get", call |-> NoCall, get |-> g]

InTime(token) == stored[token].put /\ now <= stored[token].at + TtlTicks

\* ------------------------------------------------- rendering engines
\* what p.chromium.launch() can return: a new Browser object each time
BrowserIds == 1..MaxBrowsers

NoBrowser == 0

\* the frame of markdown_to_png_bytes: no call in flight, `browser` unbound,
\* no exception on its way out
RenderIdle == [pc |-> "idle", browser |-> NoBrowser, exc |-> FALSE]

\* a constructor that takes any key
client_init_raises_never(key) == FALSE

\* PaperSketchClient.__init__: `if not PAPERSKETCH_API_KEY: raise RuntimeError(...)`
client_init_raises(key) == key = Null \/ key = ""

Init ==
    /\ api_key = "key"
    /\ client = "ready"
    /\ now = 0
    /\ FILE_CACHE = [t \in PathTokens |-> NoEntry]
    /\ stored = [t \in PathTokens |-> NoPut]
    /\ inv = [i \in Invs |-> InvIdle]
    /\ req = [r \in Reqs |-> ReqIdle]
    /\ render_calls = [i \in Invs |-> RenderIdle]
    /\ browsers = [b \in BrowserIds |-> "none"]
    /\ sent = NoSent

\* ----------------------------------------------------- the event loop
\* an invocation that holds the event loop: it is between two awaits
OnLoop(i) == inv[i].pc \in {"sweep_iter", "sweep_pop", "summarize"}

LoopFree == \A j \in Invs : ~OnLoop(j)

\* slots are interchangeable: a new call or request takes the lowest idle one
LowestIdleInv(i) == inv[i].pc = "idle" /\ \A j \in Invs : j < i => inv[j].pc # "idle"

LowestIdleReq(r) == req[r].pc = "idle" /\ \A q \in Reqs : q < r => req[q].pc # "idle"

\* the handler returns `result`
Returns(c, result) == SentCall([c EXCEPT !.outcome = "result", !.result = result])

\* exception `exc` leaves the handler
Raises(c, exc) == SentCall([c EXCEPT !.outcome = "raised", !.exc = exc])

\* the call of invocation i, as far as it has come
CallOf(i) == [NoCall EXCEPT !.name = TOOL_NAME, !.url = inv[i].url,
                            !.raw_summary = inv[i].raw_summary, !.calls = inv[i].calls]

\* ------------------------------------------------- _handle_call_tool
\* entry up to the first step of _cache_cleanup_expired: the name and argument
\* checks, `now = time.time()` and the start of the iteration over
\* _FILE_CACHE.items() (the iterator remembers the dict's size)
CallTool(i, name, url) ==
    /\ LowestIdleInv(i)
    /\ LoopFree
    /\ LET call == [NoCall EXCEPT !.name = name, !.url = url]
       IN  IF name # TOOL_NAME
           THEN /\ sent' = Returns(call, ErrorResult("Unknown tool"))
                /\ inv' = inv
           ELSE IF invalid_args(url)
           THEN /\ sent' = Returns(call, ErrorResult("Missing required argument: url"))
                /\ inv' = inv
           ELSE /\ sent' = NoSent
                /\ inv' = [inv EXCEPT ![i] =
                     [InvIdle EXCEPT !.pc = "sweep_iter", !.url = url, !.sweep_now = now,
                                     !.it_used = Cardinality(CacheKeys(FILE_CACHE))]]
    /\ UNCHANGED <<api_key, client, render_calls, browsers, now, FILE_CACHE, stored, req>>

\* where the handler goes when _cache_cleanup_expired returns
AfterSweep(c) == [InvIdle EXCEPT !.pc = "summarize", !.url = c.url]

\* one step of the list comprehension over _FILE_CACHE.items(): the iterator
\* raises RuntimeError when the dict's size is not the one it started with,
\* else yields the next key in insertion order, or ends
SweepIter(i) ==
    /\ inv[i].pc = "sweep_iter"
    /\ LET keys == CacheKeys(FILE_CACHE)
           rest == {t \in keys : t > inv[i].it_pos}
           k == CHOOSE t \in rest : \A u \in rest : t <= u
       IN  IF Cardinality(keys) # inv[i].it_used
           THEN /\ sent' = Raises(CallOf(i), "RuntimeError")
                /\ inv' = [inv EXCEPT ![i] = InvIdle]
           ELSE /\ sent' = NoSent
                /\ inv' = [inv EXCEPT ![i] =
                     IF rest = {}
                     THEN IF inv[i].expired = <<>> THEN AfterSweep(inv[i])
                          ELSE [inv[i] EXCEPT !.pc = "sweep_pop"]
                     ELSE [inv[i] EXCEPT !.it_pos = k,
                             !.expired =
                                IF sweep_expired(FILE_CACHE[k].expires_at, inv[i].sweep_now)
                                THEN Append(@, k) ELSE @]]
    /\ UNCHANGED <<api_key, client, render_calls, browsers, now, FILE_CACHE, stored, req>>

\* one step of `for k in expired: _FILE_CACHE.pop(k, None)`
SweepPop(i) ==
    /\ inv[i].pc = "sweep_pop"
    /\ FILE_CACHE' = cache_pop(FILE_CACHE, Head(inv[i].expired))
    /\ inv' = [inv EXCEPT ![i] =
         IF Tail(inv[i].expired) = <<>> THEN AfterSweep(inv[i])
         ELSE [inv[i] EXCEPT !.expired = Tail(@)]]
    /\ sent' = NoSent
    /\ UNCHANGED <<api_key, client, render_calls, browsers, now, stored, req>>

\* data = _client.summarize(url=url, lang=lang), the extraction of raw_summary,
\* and, for an empty summary, the result
Summarize(i, transport, data) ==
    /\ inv[i].pc = "summarize"
    /\ LET exc == summarize_raises(transport)
           raw == raw_summary_of(data)
           called == [CallOf(i) EXCEPT !.calls = @ + 1, !.transport = transport]
       IN  IF exc # ""
           THEN /\ sent' = Raises(called, exc)
                /\ inv' = [inv EXCEPT ![i] = InvIdle]
           ELSE IF ~TruthyStr(raw)
           THEN /\ sent' = Returns([called EXCEPT !.raw_summary = raw],
                                   ToolResult(raw, <<>>))
                /\ inv' = [inv EXCEPT ![i] = InvIdle]
           ELSE /\ sent' = NoSent
                /\ inv' = [inv EXCEPT ![i] =
                     [InvIdle EXCEPT !.pc = "render", !.url = inv[i].url,
                                     !.raw_summary = raw, !.calls = called.calls]]
    /\ UNCHANGED <<api_key, client, render_calls, browsers, now, FILE_CACHE, stored, req>>

\* markdown_to_png_bytes returns, then _cache_put_file, the URL (base_env is
\* what os.environ.get("PAPERSKETCH_PUBLIC_BASE_URL", "") reads) and the result
RenderReturns(i, base_env) ==
    /\ inv[i].pc = "render"
    /\ LoopFree
    /\ Tokens \ UsedTokens # {}
    /\ LET token == uuid4(UsedTokens)
           png_bytes == png_of(inv[i].raw_summary)
       IN  /\ FILE_CACHE' = cache_put_file(FILE_CACHE, token, png_bytes, image_filename,
                                           image_mime, now)
           /\ stored' = [stored EXCEPT ![token] =
                           [put |-> TRUE, at |-> now, file_bytes |-> png_bytes,
                            filename |-> image_filename, mime_type |-> image_mime]]
           /\ sent' = Returns([CallOf(i) EXCEPT !.transport = "ok", !.render = "ok",
                                                !.base = base_env, !.puts = @ + 1,
                                                !.token = token],
                              ToolResult(inv[i].raw_summary, image_url_of(base_env, token)))
    /\ inv' = [inv EXCEPT ![i] = InvIdle]
    /\ UNCHANGED <<api_key, client, render_calls, browsers, now, req>>

\* the render call outside any try: its exception leaves the handler
RenderRaisesUncaught(i) ==
    /\ inv[i].pc = "render"
    /\ LoopFree
    /\ sent' = Raises([CallOf(i) EXCEPT !.transport = "ok", !.render = "failed"],
                      "Exception")
    /\ inv' = [inv EXCEPT ![i] = InvIdle]
    /\ UNCHANGED <<api_key, client, render_calls, browsers, now, FILE_CACHE, stored, req>>

\* a handler that reserves the cache entry before it renders: the render
\* fails and the entry stays
RenderRaisesAfterPut(i) ==
    /\ inv[i].pc = "render"
    /\ LoopFree
    /\ Tokens \ UsedTokens # {}
    /\ FILE_CACHE' = cache_put_file(FILE_CACHE, uuid4(UsedTokens), <<>>, image_filename,
                                    image_mime, now)
    /\ stored' = [stored EXCEPT ![uuid4(UsedTokens)] =
                    [put |-> TRUE, at |-> now, file_bytes |-> <<>>,
                     filename |-> image_filename, mime_type |-> image_mime]]
    /\ sent' = Returns([CallOf(i) EXCEPT !.transport = "ok", !.render = "failed"],
                       ToolResult(inv[i].raw_summary, <<>>))
    /\ inv' = [inv EXCEPT ![i] = InvIdle]
    /\ UNCHANGED <<api_key, client, render_calls, browsers, now, req>>

\* markdown_to_png_bytes raises: `except Exception` logs it and the handler goes on
RenderRaises(i) ==
    /\ inv[i].pc = "render"
    /\ LoopFree
    /\ sent' = Returns([CallOf(i) EXCEPT !.transport = "ok", !.render = "failed"],
                       ToolResult(inv[i].raw_summary, <<>>))
    /\ inv' = [inv EXCEPT ![i] = InvIdle]
    /\ UNCHANGED <<api_key, client, render_calls, browsers, now, FILE_CACHE, stored, req>>

\* ------------------------------------- download_file / cache_get_file
\* cache_get_file returns `ret` and download_file answers
Answers(g, ret) == SentGet([g EXCEPT !.ret = ret, !.resp = download_response(ret)])

\* the route is matched and cache_get_file does `item = _FILE_CACHE.get(token)`;
\* `if not item: return None`, and download_file answers 404
GetLookup(r, route, token) ==
    /\ LowestIdleReq(r)
    /\ route_handler(route) = "download_file"
    /\ LET item == FILE_CACHE[token]
       IN  IF ~item.present
           THEN /\ sent' = Answers([NoGet EXCEPT !.token = token,
                                                 !.after_put = stored[token].put,
                                                 !.in_time = InTime(token)], NoRet)
                /\ req' = req
           ELSE /\ sent' = NoSent
                /\ req' = [req EXCEPT ![r] = [pc |-> "check", token |-> token,
                                              item |-> item]]
    /\ FILE_CACHE' = cache_after_get(FILE_CACHE, token)
    /\ UNCHANGED <<api_key, client, render_calls, browsers, now, stored, inv>>

\* the download of request r, whose lookup found an item
GetOf(r) == [NoGet EXCEPT !.token = req[r].token, !.found = TRUE,
                         !.after_put = stored[req[r].token].put,
                         !.in_time = InTime(req[r].token)]

\* `if time.time() > expires_at`, and the return of the triple when it is not
GetCheck(r) ==
    /\ req[r].pc = "check"
    /\ IF get_expired(now, req[r].item.expires_at)
       THEN /\ sent' = NoSent
            /\ req' = [req EXCEPT ![r].pc = "pop"]
       ELSE /\ sent' = Answers(GetOf(r), Triple(req[r].item))
            /\ req' = [req EXCEPT ![r] = ReqIdle]
    /\ UNCHANGED <<api_key, client, render_calls, browsers, now, FILE_CACHE, stored, inv>>

\* `_FILE_CACHE.pop(token, None); return None`, and download_file answers 404
GetPop(r) ==
    /\ req[r].pc = "pop"
    /\ FILE_CACHE' = cache_pop(FILE_CACHE, req[r].token)
    /\ sent' = Answers(GetOf(r), NoRet)
    /\ req' = [req EXCEPT ![r] = ReqIdle]
    /\ UNCHANGED <<api_key, client, render_calls, browsers, now, stored, inv>>

\* the clock advances
Tick ==
    /\ now < MaxTime
    /\ now' = now + 1
    /\ sent' = NoSent
    /\ UNCHANGED <<api_key, client, render_calls, browsers, FILE_CACHE, stored, inv, req>>

Next ==
    \/ \E i \in Invs, name \in ToolNames, url \in UrlArgs : CallTool(i, name, url)
    \/ \E i \in Invs : SweepIter(i)
    \/ \E i \in Invs : SweepPop(i)
    \/ \E i \in Invs, transport \in Transports, data \in Responses :
          Summarize(i, transport, data)
    \/ \E i \in Invs, base_env \in Bases : RenderReturns(i, base_env)
    \/ \E i \in Invs : RenderRaises(i)
    \/ \E r \in Reqs, route \in {FILE_ROUTE, PDF_ROUTE}, token \in PathTokens :
          GetLookup(r, route, token)
    \/ \E r \in Reqs : GetCheck(r)
    \/ \E r \in Reqs : GetPop(r)
    \/ Tick

Spec == Init /\ [][Next]_vars

\* ------------------------------------------------------------ claims
\* the live entry _cache_put_file made under token t
PutEntry(t) == Entry(stored[t].file_bytes, stored[t].filename, stored[t].mime_type,
                     stored[t].at + TtlTicks)

\* the path a client requests when it follows a URL: the route and the token
url_path(url) == SubSeq(url, Len(url) - 1, Len(url))

\* C1: cache_get_file returns the stored triple if and only if its lookup found
\* an entry under the token and the clock it read was not past the entry's
\* expires_at; an expired entry is not returned even when the lookup still
\* found it in _FILE_CACHE.
C1_GetIffPresentAndLive ==
    sent.kind = "get" =>
        /\ sent.get.ret # NoRet <=> (sent.get.found /\ sent.get.in_time)
        /\ sent.get.ret # NoRet => sent.get.ret = PutTriple(stored[sent.get.token])

\* a get found the entry in the dict, past its expires_at, and returned nothing
C1_Witness ==
    /\ sent.kind = "get"
    /\ sent.get.found
    /\ ~sent.get.in_time
    /\ sent.get.ret = NoRet

\* C2: a tool call whose summarizer request timed out or was answered with a
\* non-2xx status ends with an error result returned by the handler; no
\* exception leaves _handle_call_tool.
C2_SummarizerFailureReported ==
    (sent.kind = "call" /\ sent.call.transport \in {"read_timeout", "status_error"}) =>
        /\ sent.call.outcome = "result"
        /\ sent.call.result.isError

\* C3: the step that ends a tool call whose summary was non-empty and whose
\* render failed returns a non-error result carrying the extracted summary and
\* empty imageUrl and pdfUrl; the call has made no put and the step leaves
\* _FILE_CACHE as it was.
C3_RenderFailureSwallowed ==
    [][(sent'.kind = "call" /\ sent'.call.render = "failed") =>
          /\ sent'.call.outcome = "result"
          /\ ~sent'.call.result.isError
          /\ TruthyStr(sent'.call.raw_summary)
          /\ sent'.call.result.summary = sent'.call.raw_summary
          /\ sent'.call.result.imageUrl = <<>>
          /\ sent'.call.result.pdfUrl = <<>>
          /\ sent'.call.puts = 0
          /\ FILE_CACHE' = FILE_CACHE]_vars

\* a render failed while another call's entry was in the cache
C3_Witness ==
    /\ sent.kind = "call"
    /\ sent.call.render = "failed"
    /\ sent.call.outcome = "result"
    /\ CacheKeys(FILE_CACHE) # {}

\* C4: under every interleaving of the steps of concurrent tool calls and
\* downloads, an entry whose put has returned is in _FILE_CACHE, unchanged,
\* as long as the clock is not past its expires_at, and every get of its token
\* that reads the clock in that time returns it.
C4_LiveEntriesStay ==
    /\ \A t \in Tokens : InTime(t) => FILE_CACHE[t] = PutEntry(t)
    /\ (sent.kind = "get" /\ sent.get.after_put /\ sent.get.in_time) =>
           sent.get.ret = PutTriple(stored[sent.get.token])

\* a live entry is in the cache after a sweep has popped another one, while a
\* second tool call is rendering and a download sits between its lookup and
\* its expiry check
C4_Witness ==
    /\ \E t \in Tokens : InTime(t) /\ FILE_CACHE[t].present
    /\ \E u \in Tokens : stored[u].put /\ ~FILE_CACHE[u].present
    /\ \E i \in Invs : inv[i].pc = "summarize"
    /\ \E j \in Invs : inv[j].pc = "render"
    /\ \E r \in Reqs : req[r].pc = "check"

\* the steps of invocation i's _cache_cleanup_expired
SweepStep(i) == inv[i].pc \in {"sweep_iter", "sweep_pop"} /\ inv'[i] # inv[i]

\* C5: a pop of _cache_cleanup_expired removes only an entry with expires_at
\* below the `now` the sweep read and changes no other entry, and when the
\* sweep returns, no entry with expires_at below that `now` is left in
\* _FILE_CACHE while the entries with expires_at at or above it that were
\* there before the step are still there with the same value.
C5_SweepRemovesExactlyExpired ==
    [][\A i \in Invs : SweepStep(i) =>
          /\ \A t \in PathTokens :
                FILE_CACHE'[t] # FILE_CACHE[t] =>
                    /\ FILE_CACHE[t].present
                    /\ FILE_CACHE[t].expires_at < inv[i].sweep_now
                    /\ ~FILE_CACHE'[t].present
          /\ inv'[i].pc = "summarize" =>
                \A t \in PathTokens :
                    FILE_CACHE'[t].present => FILE_CACHE'[t].expires_at >= inv[i].sweep_now]_vars

\* a sweep has returned after popping an expired entry and has left a live one
C5_Witness ==
    /\ \E i \in Invs : inv[i].pc = "summarize"
    /\ \E u \in Tokens : stored[u].put /\ ~InTime(u) /\ ~FILE_CACHE[u].present
    /\ \E t \in Tokens : InTime(t) /\ FILE_CACHE[t] = PutEntry(t)

\* C6: a get of a token returned by a put, reading the clock not later than
\* the put time plus the TTL, returns exactly the triple that was put, and the
\* entry is still in the cache afterwards for the next get.
C6_PutThenGetExact ==
    (sent.kind = "get" /\ sent.get.after_put /\ sent.get.in_time) =>
        /\ sent.get.ret = <<stored[sent.get.token].file_bytes,
                            stored[sent.get.token].filename,
                            stored[sent.get.token].mime_type>>
        /\ InTime(sent.get.token) => FILE_CACHE[sent.get.token].present

\* a get within the TTL returned the put triple and left the entry in place
C6_Witness ==
    /\ sent.kind = "get"
    /\ sent.get.after_put
    /\ sent.get.in_time
    /\ sent.get.ret = <<png_of("A"), image_filename, image_mime>>
    /\ FILE_CACHE[sent.get.token].present

\* C8: a call of the tool whose url argument is missing or is not a string
\* ends with an error result returned by the handler, not with an exception,
\* and without a call of the summarizer client; no such call is ever past the
\* argument check.
C8_BadUrlRejected ==
    /\ \A i \in Invs : inv[i].pc # "idle" => inv[i].url.type = "str"
    /\ (sent.kind = "call" /\ sent.call.name = TOOL_NAME
          /\ sent.call.url.type # "str") =>
           /\ sent.call.outcome = "result"
           /\ sent.call.result.isError
           /\ sent.call.calls = 0

\* a call with a url that is not a string was answered with the error result
C8_Witness ==
    /\ sent.kind = "call"
    /\ sent.call.name = TOOL_NAME
    /\ sent.call.url.type = "int"
    /\ sent.call.result = ErrorResult("Missing required argument: url")

\* C9: the step of a get on a token that no put has returned returns nothing
\* and leaves every entry of _FILE_CACHE as it was, adding and removing none.
C9_MissHasNoEffect ==
    [][(sent'.kind = "get" /\ ~stored[sent'.get.token].put) =>
          /\ sent'.get.ret = NoRet
          /\ FILE_CACHE' = FILE_CACHE]_vars

\* a get missed on a never-put token while the cache held another entry
C9_Witness ==
    /\ sent.kind = "get"
    /\ ~stored[sent.get.token].put
    /\ sent.get.ret = NoRet
    /\ CacheKeys(FILE_CACHE) # {}

\* C10: a tool call with a valid url, a non-empty summary and a successful
\* render has made exactly one put, of the rendered bytes, and returns an
\* imageUrl whose path is the file route with the put's token; a GET of that
\* path is answered 200 with exactly those bytes when it reads the clock
\* within the TTL of the put, and 404 when it reads it after.
C10_EndToEnd ==
    /\ (sent.kind = "call" /\ sent.call.render = "ok") =>
           /\ sent.call.outcome = "result"
           /\ sent.call.puts = 1
           /\ stored[sent.call.token].put
           /\ stored[sent.call.token].file_bytes = png_of(sent.call.raw_summary)
           /\ url_path(sent.call.result.imageUrl)
                 = <<FILE_ROUTE, ToString(sent.call.token)>>
    /\ \A t \in Tokens, base \in Bases :
          (sent.kind = "get" /\ stored[t].put
             /\ ToString(sent.get.token) = url_path(image_url_of(base, t))[2]) =>
              IF sent.get.in_time
              THEN /\ sent.get.resp.status = 200
                   /\ sent.get.resp.body = stored[t].file_bytes
              ELSE sent.get.resp.status = 404

\* a GET of a rendered image's path after its TTL was answered 404
C10_Witness ==
    /\ sent.kind = "get"
    /\ sent.get.after_put
    /\ stored[sent.get.token].file_bytes = png_of("A")
    /\ now > stored[sent.get.token].at + TtlTicks
    /\ sent.get.resp = NotFound

\* C11: download_file answers 200 with the payload as body, the stored mime
\* type as Content-Type, Content-Disposition attachment with the stored
\* filename and Cache-Control no-store exactly when cache_get_file returned a
\* triple for the path token, and 404 with a plain-text body in every other
\* case (token never issued, absent or expired); it answers nothing else.
C11_DownloadResponses ==
    sent.kind = "get" =>
        IF sent.get.ret # NoRet
        THEN /\ sent.get.resp.status = 200
             /\ sent.get.resp.body = sent.get.ret[1]
             /\ sent.get.resp.media_type = sent.get.ret[3]
             /\ sent.get.resp.disposition = <<"attachment; filename=", sent.get.ret[2]>>
             /\ sent.get.resp.cache_control = "no-store"
        ELSE /\ sent.get.resp.status = 404
             /\ sent.get.resp.media_type = "text/plain"
             /\ sent.get.resp.body # <<>>

\* a download was answered 200 with the rendered image and its headers
C11_Witness ==
    /\ sent.kind = "get"
    /\ sent.get.ret # NoRet
    /\ sent.get.resp.status = 200
    /\ sent.get.resp.body = png_of("A")
    /\ sent.get.resp.media_type = image_mime
    /\ sent.get.resp.disposition = <<"attachment; filename=", image_filename>>

\* a whole request, routed and run by download_file without another step in
\* between, on cache c at time t: its response and the cache it leaves
download_file_run(c, t, route, token) ==
    IF route_handler(route) # "download_file"
    THEN [resp |-> RouterNotFound, cache |-> c]
    ELSE LET item == c[token]
             looked == cache_after_get(c, token)
         IN  IF ~item.present
             THEN [resp |-> download_response(NoRet), cache |-> looked]
             ELSE IF get_expired(t, item.expires_at)
             THEN [resp |-> download_response(NoRet), cache |-> cache_pop(looked, token)]
             ELSE [resp |-> download_response(Triple(item)), cache |-> looked]

\* C12: in every cache state and for every token, a GET of
\* /papersketch/file/{token} and a GET of /papersketch/pdf/{token} get the
\* same status, body and headers and leave the same cache.
C12_RoutesEquivalent ==
    \A token \in PathTokens :
        download_file_run(FILE_CACHE, now, FILE_ROUTE, token)
            = download_file_run(FILE_CACHE, now, PDF_ROUTE, token)

\* a download was answered 200, both routes would get that same answer for its
\* token now, and for an expired entry still in the cache both would get 404
\* and remove it
C12_Witness ==
    /\ sent.kind = "get"
    /\ sent.get.resp.status = 200
    /\ download_file_run(FILE_CACHE, now, FILE_ROUTE, sent.get.token).resp = sent.get.resp
    /\ download_file_run(FILE_CACHE, now, PDF_ROUTE, sent.get.token).resp = sent.get.resp
    /\ \E u \in Tokens :
          /\ FILE_CACHE[u].present
          /\ download_file_run(FILE_CACHE, now, PDF_ROUTE, u).resp = NotFound
          /\ ~download_file_run(FILE_CACHE, now, PDF_ROUTE, u).cache[u].present

\* the keys a step adds to _FILE_CACHE
NewKeys == {t \in PathTokens : FILE_CACHE'[t].present /\ ~FILE_CACHE[t].present}

\* C13: a step adds a key to _FILE_CACHE only as the end of a tool call with
\* the tool's name, a valid url, a summarizer answer with a non-empty summary
\* and a render that returned; it then adds one key, by the call's only put.
\* A call that ends in any other way (unknown tool, invalid url, summarizer
\* failure, empty summary, render failure) has made no put.
C13_PutOnlyOnRender ==
    [][/\ NewKeys # {} =>
             /\ sent'.kind = "call"
             /\ sent'.call.render = "ok"
             /\ sent'.call.name = TOOL_NAME
             /\ ~invalid_args(sent'.call.url)
             /\ sent'.call.transport = "ok"
             /\ sent'.call.calls = 1
             /\ TruthyStr(sent'.call.raw_summary)
             /\ sent'.call.puts = 1
             /\ NewKeys = {sent'.call.token}
       /\ (sent'.kind = "call" /\ sent'.call.render # "ok") =>
             /\ sent'.call.puts = 0
             /\ NewKeys = {}]_vars

\* a call ended by a successful render has put its one entry
C13_Witness ==
    /\ sent.kind = "call"
    /\ sent.call.render = "ok"
    /\ sent.call.puts = 1
    /\ FILE_CACHE[sent.call.token].present
    /\ Cardinality(CacheKeys(FILE_CACHE)) = 1

\* C14: an entry of _FILE_CACHE keeps its payload, filename, mime type and
\* expires_at from its insertion for as long as its token is in the mapping:
\* no step of a put, a get or a sweep changes an entry that stays, and a get
\* does not move its expiry.
C14_EntriesImmutable ==
    [][\A t \in PathTokens :
          (FILE_CACHE[t].present /\ FILE_CACHE'[t].present) =>
              FILE_CACHE'[t] = FILE_CACHE[t]]_vars

\* an entry has been read by a get after a later put of another token, and is
\* still the entry that was put
C14_Witness ==
    /\ sent.kind = "get"
    /\ sent.get.ret # NoRet
    /\ FILE_CACHE[sent.get.token] = PutEntry(sent.get.token)
    /\ \E u \in Tokens : stored[u].put /\ stored[u].at > stored[sent.get.token].at

\* C15: a tool call's summarizer request that fails with a transport timeout
\* (reading the response or connecting) makes summarize raise its timeout
\* error, the RuntimeError it raises for a read timeout, and that error is not
\* the one raised for a non-2xx status.
C15_TimeoutIsDomainError ==
    (sent.kind = "call" /\ sent.call.transport \in {"read_timeout", "connect_timeout"}) =>
        /\ sent.call.exc = "RuntimeError"
        /\ sent.call.exc # summarize_raises("status_error")

\* a sequence of n slashes
Slashes(n) == [k \in 1..n |-> "/"]

\* C16 as stated: on a successful render the URL is the base address as
\* configured followed by /papersketch/file/<token>, the path alone when no
\* base is configured, and a call's URL is non-empty exactly when it made a put.
C16_UrlIsBaseThenPath ==
    /\ (sent.kind = "call" /\ sent.call.render = "ok") =>
          /\ FILE_CACHE[sent.call.token].present
          /\ sent.call.result.imageUrl
                = sent.call.base \o <<FILE_ROUTE, ToString(sent.call.token)>>
    /\ sent.kind = "call" => (sent.call.result.imageUrl # <<>> <=> sent.call.puts = 1)

\* C16, amended: on a successful render the URL ends in
\* /papersketch/file/<token> with the token of this call's put, and what
\* precedes that path is the configured base address without its trailing
\* slashes (nothing, when the base is unset or all slashes); a call's URL,
\* imageUrl and pdfUrl alike, is non-empty exactly when the call made a put.
C16_UrlIsStrippedBaseThenPath ==
    /\ (sent.kind = "call" /\ sent.call.render = "ok") =>
          LET url == sent.call.result.imageUrl
              pre == SubSeq(url, 1, Len(url) - 2)
          IN  /\ FILE_CACHE[sent.call.token].present
              /\ stored[sent.call.token].at = now
              /\ Len(url) >= 2
              /\ url[Len(url) - 1] = FILE_ROUTE
              /\ url[Len(url)] = ToString(sent.call.token)
              /\ pre = <<>> \/ pre[Len(pre)] # "/"
              /\ \E n \in 0..Len(sent.call.base) : sent.call.base = pre \o Slashes(n)
    /\ sent.kind = "call" =>
          /\ sent.call.result.imageUrl # <<>> <=> sent.call.puts = 1
          /\ sent.call.result.pdfUrl = sent.call.result.imageUrl

\* a call returned the URL of its put under a base configured with a trailing slash
C16_Witness ==
    /\ sent.kind = "call"
    /\ sent.call.render = "ok"
    /\ sent.call.base = <<"h", "/">>
    /\ sent.call.result.imageUrl = <<"h", FILE_ROUTE, ToString(sent.call.token)>>
    /\ FILE_CACHE[sent.call.token].present

\* ------------------------------------- the extraction of raw_summary
\* a key that the JSON object of the summarizer does not have
Absent == "<absent>"

\* the value of a candidate key in the JSON object: no such key, null, or a string
JsonValues == {Absent, Null, "", "A", "B"}

JsonObjects == [paperSketch : JsonValues, summary : JsonValues, paper_sketch : JsonValues]

\* data.get(key) for each candidate key: None for a key the object does not have
dict_get(json) == [k \in DOMAIN json |-> IF json[k] = Absent THEN Null ELSE json[k]]

\* a function of the program applied to an input, and what it returned
SentFn(name, input, output) ==
    [kind |-> name, call |-> NoCall, get |-> NoGet, input |-> input, output |-> output]

InitExtract ==
    /\ api_key = "key"
    /\ client = "ready"
    /\ now = 0
    /\ FILE_CACHE = [t \in PathTokens |-> NoEntry]
    /\ stored = [t \in PathTokens |-> NoPut]
    /\ inv = [i \in Invs |-> InvIdle]
    /\ req = [r \in Reqs |-> ReqIdle]
    /\ render_calls = [i \in Invs |-> RenderIdle]
    /\ browsers = [b \in BrowserIds |-> "none"]
    /\ \E json \in JsonObjects : sent = SentFn("data", json, "")

\* lines 192-197 of _handle_call_tool on the summarizer's answer
ExtractSummary ==
    /\ sent.kind = "data"
    /\ sent' = SentFn("raw_summary", sent.input, raw_summary_of(dict_get(sent.input)))
    /\ UNCHANGED <<api_key, client, render_calls, browsers, now, FILE_CACHE, stored, inv, req>>

SpecExtract == InitExtract /\ [][ExtractSummary]_vars

CandidateKeys == <<"paperSketch", "summary", "paper_sketch">>

\* the candidate keys the object has, and those whose value Python takes as true
PresentKeys(json) == {k \in 1..Len(CandidateKeys) : json[CandidateKeys[k]] # Absent}

TruthyKeys(json) ==
    {k \in 1..Len(CandidateKeys) : json[CandidateKeys[k]] \notin {Absent, Null, ""}}

\* the lowest of a non-empty set of positions
First(ks) == CHOOSE k \in ks : \A j \in ks : k <= j

\* C17 as stated: raw_summary is the value of the first of paperSketch,
\* summary, paper_sketch that is present in the response, and it is the empty
\* string if and only if none of them is present.
C17_FirstPresentKey ==
    sent.kind = "raw_summary" =>
        /\ PresentKeys(sent.input) # {} =>
               sent.output = dict_get(sent.input)[CandidateKeys[First(PresentKeys(sent.input))]]
        /\ sent.output = "" <=> PresentKeys(sent.input) = {}

\* C17, amended: raw_summary is the value of the first of paperSketch,
\* summary, paper_sketch whose value is present and neither null nor empty,
\* and it is the empty string if and only if none of them has such a value.
C17_FirstTruthyKey ==
    sent.kind = "raw_summary" =>
        /\ TruthyKeys(sent.input) # {} =>
               sent.output = sent.input[CandidateKeys[First(TruthyKeys(sent.input))]]
        /\ sent.output = "" <=> TruthyKeys(sent.input) = {}

\* the summary was taken from the second key, past an empty first one and
\* ahead of the third
C17_Witness ==
    /\ sent.kind = "raw_summary"
    /\ sent.input = [paperSketch |-> "", summary |-> "A", paper_sketch |-> "B"]
    /\ sent.output = "A"

\* ------------------------- _extract_title_authors_institutions
\* bounds of the documents
MaxNames == 2         \* names in an author list: 1..MaxNames
MaxBody == 2          \* lines of the body after the header: 0..MaxBody

\* A line of Markdown, by what the extraction tells apart.  kind: the field
\* a field line starts with (after _strip_bullet, whatever the case), or
\* "bullet" (matches _BULLET_RE), "numbered" ("1. x", "2) x"), "plain" or
\* "blank" (nothing but whitespace).  text: the value after the colon of a
\* field line, the item of a list line without its marker, the stripped
\* text of a plain line.
Line(kind, text) == [kind |-> kind, text |-> text]

BlankLine == Line("blank", "")

FieldNames == {"Paper Title", "Author Information", "Institutional Information"}

is_field_line(line, field_name) == line.kind = field_name

field_value_after_colon(line) == line.text

is_list_item(line) == line.kind \in {"bullet", "numbered"}

\* str.strip() of a text given as lines: blank lines at both ends go
RECURSIVE strip_lines(_)
strip_lines(lines) ==
    IF lines = <<>> THEN <<>>
    ELSE IF Head(lines).kind = "blank" THEN strip_lines(Tail(lines))
    ELSE IF lines[Len(lines)].kind = "blank"
         THEN strip_lines(SubSeq(lines, 1, Len(lines) - 1))
    ELSE lines

\* html.escape
html_escape(text) == IF text = "A&B" THEN "A&amp;B" ELSE text

\* the locals of the loop before its first line
HeaderStart == [title |-> "", authors |-> <<>>, insts |-> <<>>, remaining |-> <<>>,
                mode |-> "None"]

\* a loop body whose blocks a blank line does not end: the line is skipped
\* and the block goes on
header_step_blank_in_block(st, raw) ==
    IF is_field_line(raw, "Paper Title")
    THEN [st EXCEPT !.title = field_value_after_colon(raw), !.mode = "None"]
    ELSE IF is_field_line(raw, "Author Information")
    THEN IF field_value_after_colon(raw) # ""
         THEN [st EXCEPT !.authors = <<field_value_after_colon(raw)>>, !.mode = "None"]
         ELSE [st EXCEPT !.authors = <<>>, !.mode = "authors"]
    ELSE IF is_field_line(raw, "Institutional Information")
    THEN IF field_value_after_colon(raw) # ""
         THEN [st EXCEPT !.insts = <<field_value_after_colon(raw)>>, !.mode = "None"]
         ELSE [st EXCEPT !.insts = <<>>, !.mode = "insts"]
    ELSE IF st.mode \in {"authors", "insts"} /\ raw.kind = "blank"
    THEN st
    ELSE IF st.mode = "authors" /\ raw.text # ""
    THEN [st EXCEPT !.authors = Append(@, raw.text)]
    ELSE IF st.mode = "insts" /\ raw.text # ""
    THEN [st EXCEPT !.insts = Append(@, raw.text)]
    ELSE IF st.mode \in {"authors", "insts"} /\ is_list_item(raw)
    THEN st
    ELSE [st EXCEPT !.remaining = Append(@, raw)]

\* a loop body without the `continue` after a captured list item: the item
\* goes on into the remaining Markdown as well
header_step_keeps_items(st, raw) ==
    IF is_field_line(raw, "Paper Title")
    THEN [st EXCEPT !.title = field_value_after_colon(raw), !.mode = "None"]
    ELSE IF is_field_line(raw, "Author Information")
    THEN IF field_value_after_colon(raw) # ""
         THEN [st EXCEPT !.authors = <<field_value_after_colon(raw)>>, !.mode = "None"]
         ELSE [st EXCEPT !.authors = <<>>, !.mode = "authors"]
    ELSE IF is_field_line(raw, "Institutional Information")
    THEN IF field_value_after_colon(raw) # ""
         THEN [st EXCEPT !.insts = <<field_value_after_colon(raw)>>, !.mode = "None"]
         ELSE [st EXCEPT !.insts = <<>>, !.mode = "insts"]
    ELSE IF st.mode \in {"authors", "insts"} /\ raw.kind = "blank"
    THEN [st EXCEPT !.mode = "None"]
    ELSE IF st.mode = "authors" /\ raw.text # ""
    THEN [st EXCEPT !.authors = Append(@, raw.text),
                    !.remaining = IF is_list_item(raw) THEN Append(@, raw) ELSE @]
    ELSE IF st.mode = "insts" /\ raw.text # ""
    THEN [st EXCEPT !.insts = Append(@, raw.text),
                    !.remaining = IF is_list_item(raw) THEN Append(@, raw) ELSE @]
    ELSE IF st.mode \in {"authors", "insts"} /\ is_list_item(raw)
    THEN st
    ELSE [st EXCEPT !.remaining = Append(@, raw)]

\* the body of `for raw in lines`.  A field line sets its field and the
\* mode; inside a block a blank line ends the block, a list item or a plain
\* line with text joins the block's list, a list item without text is
\* dropped; every other line is kept as remaining Markdown.  (The second
\* test for a field line, inside a block, is never reached: field lines have
\* been taken above.)
header_step(st, raw) ==
    IF is_field_line(raw, "Paper Title")
    THEN [st EXCEPT !.title = field_value_after_colon(raw), !.mode = "None"]
    ELSE IF is_field_line(raw, "Author Information")
    THEN IF field_value_after_colon(raw) # ""
         THEN [st EXCEPT !.authors = <<field_value_after_colon(raw)>>, !.mode = "None"]
         ELSE [st EXCEPT !.authors = <<>>, !.mode = "authors"]
    ELSE IF is_field_line(raw, "Institutional Information")
    THEN IF field_value_after_colon(raw) # ""
         THEN [st EXCEPT !.insts = <<field_value_after_colon(raw)>>, !.mode = "None"]
         ELSE [st EXCEPT !.insts = <<>>, !.mode = "insts"]
    ELSE IF st.mode \in {"authors", "insts"} /\ raw.kind = "blank"
    THEN [st EXCEPT !.mode = "None"]
    ELSE IF st.mode = "authors" /\ raw.text # ""
    THEN [st EXCEPT !.authors = Append(@, raw.text)]
    ELSE IF st.mode = "insts" /\ raw.text # ""
    THEN [st EXCEPT !.insts = Append(@, raw.text)]
    ELSE IF st.mode \in {"authors", "insts"} /\ is_list_item(raw)
    THEN st
    ELSE [st EXCEPT !.remaining = Append(@, raw)]

RECURSIVE header_loop(_, _)
header_loop(st, lines) ==
    IF lines = <<>> THEN st ELSE header_loop(header_step(st, Head(lines)), Tail(lines))

\* _extract_title_authors_institutions(md).  authors_html and
\* institutions_html are given by their parts: the escaped entries that the
\* code joins with ", ", or wraps in <li> inside one <ul class='paper-inst'>;
\* no entry, the empty string
extract_title_authors_institutions(md) ==
    LET st == header_loop(HeaderStart, strip_lines(md))
    IN  [title |-> st.title,
         authors_html |-> [k \in 1..Len(st.authors) |-> html_escape(st.authors[k])],
         institutions_html |-> [k \in 1..Len(st.insts) |-> html_escape(st.insts[k])],
         remaining_md |-> strip_lines(st.remaining)]

SeqsUpTo(S, n) == UNION {[1..k -> S] : k \in 0..n}

\* documents with the header first: title line, author field line with its
\* list of names right below, a blank line or none, institution line, body
NameTexts == {"Ann", "Bo", "A&B"}

BodyLines == {Line("plain", "text"), Line("bullet", "point"), Line("numbered", "step"),
              BlankLine}

HeaderDocs == [title : {"T"},
               names : SeqsUpTo(NameTexts, MaxNames) \ {<<>>},
               gap : BOOLEAN,
               inst : {"I"},
               body : SeqsUpTo(BodyLines, MaxBody)]

NameLines(hd) == [k \in 1..Len(hd.names) |-> Line("bullet", hd.names[k])]

MarkdownOf(hd) ==
    <<Line("Paper Title", hd.title), Line("Author Information", "")>>
        \o NameLines(hd)
        \o (IF hd.gap THEN <<BlankLine>> ELSE <<>>)
        \o <<Line("Institutional Information", hd.inst)>>
        \o hd.body

InitHeader ==
    /\ api_key = "key"
    /\ client = "ready"
    /\ now = 0
    /\ FILE_CACHE = [t \in PathTokens |-> NoEntry]
    /\ stored = [t \in PathTokens |-> NoPut]
    /\ inv = [i \in Invs |-> InvIdle]
    /\ req = [r \in Reqs |-> ReqIdle]
    /\ render_calls = [i \in Invs |-> RenderIdle]
    /\ browsers = [b \in BrowserIds |-> "none"]
    /\ \E hd \in HeaderDocs : sent = SentFn("markdown", hd, <<>>)

\* markdown_to_png_bytes calls the extraction on its markdown_text
ExtractHeader ==
    /\ sent.kind = "markdown"
    /\ sent' = SentFn("header", sent.input,
                      extract_title_authors_institutions(MarkdownOf(sent.input)))
    /\ UNCHANGED <<api_key, client, render_calls, browsers, now, FILE_CACHE, stored, inv, req>>

SpecHeader == InitHeader /\ [][ExtractHeader]_vars

ApiKeys == {Null, "", "key"}

InitStartup ==
    /\ api_key \in ApiKeys
    /\ client = "unset"
    /\ now = 0
    /\ FILE_CACHE = [t \in PathTokens |-> NoEntry]
    /\ stored = [t \in PathTokens |-> NoPut]
    /\ inv = [i \in Invs |-> InvIdle]
    /\ req = [r \in Reqs |-> ReqIdle]
    /\ render_calls = [i \in Invs |-> RenderIdle]
    /\ browsers = [b \in BrowserIds |-> "none"]
    /\ sent = NoSent

\* server.py imports .tools, whose module body runs `_client =
\* PaperSketchClient()`: an exception there ends the import and the process
ImportTools ==
    /\ client = "unset"
    /\ client' = IF client_init_raises(api_key) THEN "failed" ELSE "ready"
    /\ UNCHANGED <<api_key, render_calls, browsers, now, FILE_CACHE, stored, inv, req, sent>>

\* uvicorn serves the app once server.py has been imported to its end
Serving == client = "ready"

NextStartup == ImportTools \/ (Serving /\ Next)

SpecStartup == InitStartup /\ [][NextStartup]_vars

\* C19: in a run whose PAPERSKETCH_API_KEY is missing or empty, the import
\* of tools.py fails in PaperSketchClient() and the process never serves: no
\* tool call or download is answered or in flight, no summarizer request is
\* made, and _FILE_CACHE is never touched.
C19_MissingKeyIsFatal ==
    (api_key = Null \/ api_key = "") =>
        /\ client \in {"unset", "failed"}
        /\ sent = NoSent
        /\ \A i \in Invs : inv[i] = InvIdle
        /\ \A r \in Reqs : req[r] = ReqIdle
        /\ CacheKeys(FILE_CACHE) = {}
        /\ UsedTokens = {}

\* the process has failed to start for want of a key
C19_Witness ==
    /\ api_key = Null
    /\ client = "failed"

\* C20: the step of a get that found its token's entry past its expires_at
\* returns nothing and leaves _FILE_CACHE without that token and with every
\* other entry, live or dead, as it was; every other step of a get, and so
\* every get on a live token, leaves _FILE_CACHE as it was, and the entry a
\* get returned is still in it.
C20_ExpiredGetRemovesOne ==
    [][/\ \A r \in Reqs :
             req'[r] # req[r] =>
                 IF req[r].pc = "pop"
                 THEN /\ now > req[r].item.expires_at
                      /\ sent'.kind = "get"
                      /\ sent'.get.token = req[r].token
                      /\ sent'.get.ret = NoRet
                      /\ ~FILE_CACHE'[req[r].token].present
                      /\ \A t \in PathTokens \ {req[r].token} :
                             FILE_CACHE'[t] = FILE_CACHE[t]
                 ELSE FILE_CACHE' = FILE_CACHE
       /\ (sent'.kind = "get" /\ sent'.get.ret # NoRet) =>
             /\ FILE_CACHE' = FILE_CACHE
             /\ FILE_CACHE'[sent'.get.token].present]_vars

\* a get has found its entry expired, returned nothing and removed it, and
\* the other entry is still in the cache
C20_Witness ==
    /\ sent.kind = "get"
    /\ sent.get.found
    /\ ~sent.get.in_time
    /\ sent.get.ret = NoRet
    /\ ~FILE_CACHE[sent.get.token].present
    /\ \E u \in Tokens \ {sent.get.token} : FILE_CACHE[u] = PutEntry(u)

\* C21: no step of a tool call's _cache_cleanup_expired ends the call with an
\* exception, whatever the downloads running beside it do to _FILE_CACHE: the
\* sweep completes and the handler goes on to the summarizer.
C21_SweepNeverFails ==
    [][\A i \in Invs :
          SweepStep(i) =>
              /\ ~(sent'.kind = "call" /\ sent'.call.outcome = "raised")
              /\ inv'[i].pc \in {"sweep_iter", "sweep_pop", "summarize"}]_vars

\* ------------------------------------------- markdown_to_png_bytes
\* Each call of markdown_to_png_bytes is a coroutine of its own on the event
\* loop; the calls of concurrent tool invocations interleave at its awaits.
\* An await that fails stands for any exception raised there, the
\* CancelledError of a cancelled task included.

\* a step of call i that leaves it in the function, with frame as its locals
RenderStep(i, frame) ==
    /\ render_calls' = [render_calls EXCEPT ![i] = frame]
    /\ sent' = NoSent
    /\ UNCHANGED <<api_key, client, now, FILE_CACHE, stored, inv, req>>

\* call i leaves the function, returning the PNG or raising
RenderExit(i, outcome) ==
    /\ render_calls' = [render_calls EXCEPT ![i] = RenderIdle]
    /\ sent' = SentFn("render", [call |-> i, browser |-> render_calls[i].browser], outcome)
    /\ UNCHANGED <<api_key, client, now, FILE_CACHE, stored, inv, req>>

\* a try block without its finally clause: the exception leaves the block
\* and the browser is left as it is
try_body_raises_no_finally(frame) == [frame EXCEPT !.pc = "exit_playwright", !.exc = TRUE]

\* an exception inside `try:` ... `finally: await browser.close()`: the
\* finally clause runs before the exception goes on
try_body_raises(frame) == [frame EXCEPT !.pc = "close", !.exc = TRUE]

\* the call, up to the import: header extraction and the HTML document
MarkdownToPng(i) ==
    /\ render_calls[i].pc = "idle"
    /\ RenderStep(i, [RenderIdle EXCEPT !.pc = "import"])
    /\ UNCHANGED browsers

\* `from playwright.async_api import async_playwright`, RuntimeError if it fails
ImportPlaywright(i, ok) ==
    /\ render_calls[i].pc = "import"
    /\ IF ok THEN RenderStep(i, [render_calls[i] EXCEPT !.pc = "enter"])
             ELSE RenderExit(i, "raised")
    /\ UNCHANGED browsers

\* `async with async_playwright() as p`: the driver starts, or the call raises
EnterPlaywright(i, ok) ==
    /\ render_calls[i].pc = "enter"
    /\ IF ok THEN RenderStep(i, [render_calls[i] EXCEPT !.pc = "launch"])
             ELSE RenderExit(i, "raised")
    /\ UNCHANGED browsers

\* `browser = await p.chromium.launch()`, before the try block: a failed
\* launch leaves no browser and goes out through the `async with`
Launch(i, ok) ==
    /\ render_calls[i].pc = "launch"
    /\ IF ok
       THEN \E b \in BrowserIds :
               /\ browsers[b] = "none"
               /\ \A c \in BrowserIds : browsers[c] = "none" => b <= c
               /\ browsers' = [browsers EXCEPT ![b] = "open"]
               /\ RenderStep(i, [render_calls[i] EXCEPT !.pc = "new_page", !.browser = b])
       ELSE /\ RenderStep(i, [render_calls[i] EXCEPT !.pc = "exit_playwright", !.exc = TRUE])
            /\ UNCHANGED browsers

\* `page = await browser.new_page(...)`
NewPage(i, ok) ==
    /\ render_calls[i].pc = "new_page"
    /\ RenderStep(i, IF ok THEN [render_calls[i] EXCEPT !.pc = "set_content"]
                          ELSE try_body_raises(render_calls[i]))
    /\ UNCHANGED browsers

\* `await page.set_content(html_doc, wait_until="load")`
SetContent(i, ok) ==
    /\ render_calls[i].pc = "set_content"
    /\ RenderStep(i, IF ok THEN [render_calls[i] EXCEPT !.pc = "wait_for_function"]
                          ELSE try_body_raises(render_calls[i]))
    /\ UNCHANGED browsers

\* `await page.wait_for_function(..., timeout=8000)` inside `except Exception:
\* pass`: a timeout or any other Exception is swallowed, a cancellation is not
WaitForFunction(i, how) ==
    /\ render_calls[i].pc = "wait_for_function"
    /\ RenderStep(i, IF how \in {"ok", "Exception"}
                     THEN [render_calls[i] EXCEPT !.pc = "wait_for_timeout"]
                     ELSE try_body_raises(render_calls[i]))
    /\ UNCHANGED browsers

\* `await page.wait_for_timeout(200)`
WaitForTimeout(i, ok) ==
    /\ render_calls[i].pc = "wait_for_timeout"
    /\ RenderStep(i, IF ok THEN [render_calls[i] EXCEPT !.pc = "screenshot"]
                          ELSE try_body_raises(render_calls[i]))
    /\ UNCHANGED browsers

\* `return await page.screenshot(full_page=True, type="png")`: the return,
\* too, goes through the finally clause
Screenshot(i, ok) ==
    /\ render_calls[i].pc = "screenshot"
    /\ RenderStep(i, IF ok THEN [render_calls[i] EXCEPT !.pc = "close"]
                          ELSE try_body_raises(render_calls[i]))
    /\ UNCHANGED browsers

\* `finally: await browser.close()`
BrowserClose(i) ==
    /\ render_calls[i].pc = "close"
    /\ browsers' = [browsers EXCEPT ![render_calls[i].browser] = "closed"]
    /\ RenderStep(i, [render_calls[i] EXCEPT !.pc = "exit_playwright"])

\* the end of the `async with` block: the driver stops, and the call returns
\* the screenshot or raises the exception that was on its way out
ExitPlaywright(i) ==
    /\ render_calls[i].pc = "exit_playwright"
    /\ RenderExit(i, IF render_calls[i].exc THEN "raised" ELSE "returned")
    /\ UNCHANGED browsers

NextRender ==
    \E i \in Invs :
        \/ MarkdownToPng(i)
        \/ \E ok \in BOOLEAN : ImportPlaywright(i, ok)
        \/ \E ok \in BOOLEAN : EnterPlaywright(i, ok)
        \/ \E ok \in BOOLEAN : Launch(i, ok)
        \/ \E ok \in BOOLEAN : NewPage(i, ok)
        \/ \E ok \in BOOLEAN : SetContent(i, ok)
        \/ \E how \in {"ok", "Exception", "CancelledError"} : WaitForFunction(i, how)
        \/ \E ok \in BOOLEAN : WaitForTimeout(i, ok)
        \/ \E ok \in BOOLEAN : Screenshot(i, ok)
        \/ BrowserClose(i)
        \/ ExitPlaywright(i)

SpecRender == Init /\ [][NextRender]_vars

\* the calls whose `browser` is bound to b
HoldersOf(b) == {i \in Invs : render_calls[i].browser = b}

\* C22: a Chromium launched by a call of markdown_to_png_bytes is closed
\* before that call returns or raises, whichever await failed after the
\* launch: a browser that is open belongs to exactly one call that is still
\* inside its try block, and the browser of a call that has just returned or
\* raised is closed.  No two calls in flight hold the same browser.
C22_EnginesClosedAndPrivate ==
    /\ (sent.kind = "render" /\ sent.input.browser # NoBrowser) =>
           browsers[sent.input.browser] = "closed"
    /\ \A b \in BrowserIds :
           /\ browsers[b] = "open" =>
                 \E i \in Invs :
                     /\ HoldersOf(b) = {i}
                     /\ render_calls[i].pc \in {"new_page", "set_content", "wait_for_function",
                                                "wait_for_timeout", "screenshot", "close"}
           /\ Cardinality(HoldersOf(b)) <= 1

\* a call has just raised after its launch, its browser closed, while the
\* other call is inside its own browser
C22_Witness ==
    /\ sent.kind = "render"
    /\ sent.output = "raised"
    /\ sent.input.browser # NoBrowser
    /\ browsers[sent.input.browser] = "closed"
    /\ \E j \in Invs \ {sent.input.call} :
           /\ render_calls[j].browser # NoBrowser
           /\ browsers[render_calls[j].browser] = "open"

\* ------------------------------------------- blocks and where they end
\* documents that begin with a block: a field line without an inline value,
\* the lines of its block, the line that ends the block (a blank line or a
\* field line), and whatever follows
Openers == {Line("Author Information", ""), Line("Institutional Information", "")}

FieldLines ==
    Openers \cup {Line("Paper Title", "T"), Line("Author Information", "V"),
                  Line("Institutional Information", "I")}

ItemLines == {Line("bullet", "Ann"), Line("plain", "Bo")}

BlockDocs == [opener : Openers,
              items : SeqsUpTo(ItemLines, MaxNames),
              term : {BlankLine} \cup FieldLines,
              tail : SeqsUpTo(BodyLines \cup FieldLines, MaxBody)]

BlockMarkdownOf(bd) == <<bd.opener>> \o bd.items \o <<bd.term>> \o bd.tail

InitBlock ==
    /\ api_key = "key"
    /\ client = "ready"
    /\ now = 0
    /\ FILE_CACHE = [t \in PathTokens |-> NoEntry]
    /\ stored = [t \in PathTokens |-> NoPut]
    /\ inv = [i \in Invs |-> InvIdle]
    /\ req = [r \in Reqs |-> ReqIdle]
    /\ render_calls = [i \in Invs |-> RenderIdle]
    /\ browsers = [b \in BrowserIds |-> "none"]
    /\ \E bd \in BlockDocs : sent = SentFn("block_markdown", bd, <<>>)

\* markdown_to_png_bytes calls the extraction on its markdown_text
ExtractBlock ==
    /\ sent.kind = "block_markdown"
    /\ sent' = SentFn("block_header", sent.input,
                      extract_title_authors_institutions(BlockMarkdownOf(sent.input)))
    /\ UNCHANGED <<api_key, client, render_calls, browsers, now, FILE_CACHE, stored, inv, req>>

SpecBlock == InitBlock /\ [][ExtractBlock]_vars

\* the lines that are no field lines, in their order
NonField(lines) == SelectSeq(lines, LAMBDA l : l.kind \notin FieldNames)

\* a field line that opens a block: `mode = "authors"` or `mode = "insts"`
IsOpener(line) == line \in Openers

\* a block is opened again after the first block's end
Reopens(bd) == IsOpener(bd.term) \/ \E k \in 1..Len(bd.tail) : IsOpener(bd.tail[k])

\* the lines after the first block's end, up to the next line that opens one
BeforeReopen(bd) ==
    IF IsOpener(bd.term) THEN <<>>
    ELSE LET ks == {k \in 1..Len(bd.tail) : IsOpener(bd.tail[k])}
         IN  IF ks = {} THEN bd.tail
             ELSE SubSeq(bd.tail, 1, (CHOOSE k \in ks : \A j \in ks : k <= j) - 1)

IsPrefix(p, q) == Len(p) <= Len(q) /\ SubSeq(q, 1, Len(p)) = p

\* every entry of the author list and of the institution list
ListEntries(out) ==
    {out.authors_html[k] : k \in 1..Len(out.authors_html)}
        \cup {out.institutions_html[k] : k \in 1..Len(out.institutions_html)}

\* the lines after the block's end that are no field lines are the remaining
\* Markdown (stripped at both ends, as the return value is), and none of
\* them is an entry of a list
AllToBody(bd, out) ==
    /\ out.remaining_md = strip_lines(NonField(bd.tail))
    /\ \A k \in 1..Len(bd.tail) :
           bd.tail[k].kind \notin FieldNames \cup {"blank"} =>
               html_escape(bd.tail[k].text) \notin ListEntries(out)

\* C23 as the specification states it: a block opened by a field line without
\* an inline value ends at the first blank line or field line, and every
\* later line that is no field line is in the remaining Markdown, in input
\* order, and in neither list.
C23_AfterBlockAllToBody ==
    sent.kind = "block_header" => AllToBody(sent.input, sent.output)

\* C23, amended: a block opened by a field line without an inline value ends
\* at the first blank line or field line.  The later lines that are no field
\* lines, up to the next field line without an inline value, are in the
\* remaining Markdown, in input order, and in neither list; where no such
\* field line follows, they are the whole of the remaining Markdown.  (A field
\* line without an inline value opens a block of its own.)
C23_AfterBlockToBodyUntilReopened ==
    sent.kind = "block_header" =>
        LET bd == sent.input
            out == sent.output
        IN  /\ IsPrefix(strip_lines(NonField(BeforeReopen(bd))), out.remaining_md)
            /\ ~Reopens(bd) => AllToBody(bd, out)

\* an author block of one name was ended by a blank line, and the list item
\* and the paragraph that follow are the remaining Markdown
C23_Witness ==
    /\ sent.kind = "block_header"
    /\ sent.input.opener = Line("Author Information", "")
    /\ sent.input.items = <<Line("bullet", "Ann")>>
    /\ sent.input.term = BlankLine
    /\ sent.input.tail = <<Line("bullet", "point"), Line("plain", "text")>>
    /\ sent.output.authors_html = <<"Ann">>
    /\ sent.output.remaining_md = sent.input.tail
====
